---- MODULE Spec2Model ----
(***************************************************************************)
(* Model of extractcontent.py: the metadata extractor (snarf_file and its  *)
(* helpers) and the driver that runs it over a list of files and writes    *)
(* results.json.                                                           *)
(*                                                                         *)
(* Text is a sequence of one-character strings.  A mapping (a Python dict) *)
(* is a function whose domain is its set of keys.  A parsed document is a  *)
(* record holding what the selectors of the code find in it.               *)
(***************************************************************************)
EXTENDS Integers, Sequences, FiniteSets, TLC

VARIABLES
    \* the driver (__main__) and the call of snarf_file in progress
    files,        \* args.files
    i,            \* number of files the for loop has finished with
    f,            \* the module global f, the loop variable of __main__
    pc,           \* position of the run
    soup,         \* the document parsed by the call in progress
    d,            \* the value snarf_file returned
    datalist,     \* the list of results
    openFiles,    \* the file objects that are open
    opened,       \* every path open() was called on, in order
    resultsJson,  \* what results.json holds on disk
    written,      \* what has been written to the file object fout
    results0,     \* what results.json held when the run started
    outOpens,     \* how many times results.json was opened
    dumps,        \* how many times json.dump wrote to it
    err,          \* the exception that ended the run, or NoErr
    \* clean_text on its own
    text, out1, out2, cpc,
    \* the loop of get_coders on its own
    divs, coders,
    \* the loop of get_journal_data on its own
    links, jd, jpc

driverVars == <<files, i, f, pc, soup, d, datalist, openFiles, opened,
                resultsJson, written, results0, outOpens, dumps, err>>
cleanVars == <<text, out1, out2, cpc>>
codersVars == <<divs, coders>>
journalVars == <<links, jd, jpc>>
vars == <<driverVars, cleanVars, codersVars, journalVars>>

(***************************************************************************)
(* Bounds of the model.                                                    *)
(***************************************************************************)
MaxLen == 4       \* longest text given to clean_text on its own
MaxFiles == 3     \* longest list of files given to the driver
MaxDivs == 3      \* longest sequence of coder blocks scanned
MaxLinks == 3     \* longest sequence of anchors scanned

(***************************************************************************)
(* Characters.                                                             *)
(***************************************************************************)
\* A character TLA+ cannot write in a string is named by its code point:
\* "U+000B" is the vertical tab, "U+00A0" the no-break space.

\* the characters \s matches in a pattern compiled without re.UNICODE:
\* [ \t\n\r\f\v]
ReWhitespace == {" ", "\t", "\n", "\r", "\f", "U+000B"}

\* the characters strip() removes from the unicode text BeautifulSoup gives:
\* every character unicode.isspace() holds of
StripWhitespace ==
    ReWhitespace \cup
    {"U+001C", "U+001D", "U+001E", "U+001F", "U+0085", "U+00A0", "U+1680",
     "U+180E", "U+2000", "U+2001", "U+2002", "U+2003", "U+2004", "U+2005",
     "U+2006", "U+2007", "U+2008", "U+2009", "U+200A", "U+2028", "U+2029",
     "U+202F", "U+205F", "U+3000"}
\* the characters \d matches
Digit == {"0", "1", "2", "3", "4", "5", "6", "7", "8", "9"}
\* the characters the texts given to clean_text on its own are made of
Alphabet == {"a", " ", "\n", "U+000B", "U+00A0"}

SeqsUpTo(S, n) == UNION {[1..k -> S] : k \in 0..n}

(***************************************************************************)
(* clean_text                                                              *)
(***************************************************************************)
RECURSIVE lstrip(_)
lstrip(s) ==
    IF s # <<>> /\ Head(s) \in StripWhitespace THEN lstrip(Tail(s)) ELSE s

RECURSIVE rstrip(_)
rstrip(s) ==
    IF s # <<>> /\ s[Len(s)] \in StripWhitespace
    THEN rstrip(SubSeq(s, 1, Len(s) - 1))
    ELSE s

\* str.strip()
strip(s) == rstrip(lstrip(s))

\* what is left of s after the longest match of \s+ at its start
RECURSIVE skip_spaces(_)
skip_spaces(s) ==
    IF s # <<>> /\ Head(s) \in ReWhitespace THEN skip_spaces(Tail(s)) ELSE s

\* re.sub(r'\s+', ' ', s): every maximal run of characters \s matches
\* becomes one space
RECURSIVE sub_spaces(_)
sub_spaces(s) ==
    IF s = <<>> THEN <<>>
    ELSE IF Head(s) \in ReWhitespace
         THEN <<" ">> \o sub_spaces(skip_spaces(s))
         ELSE <<Head(s)>> \o sub_spaces(Tail(s))

\* mutant: only the substitution, the strip() forgotten
clean_text_nostrip(s) == sub_spaces(s)

clean_text(s) == strip(sub_spaces(s))

(***************************************************************************)
(* Values.                                                                 *)
(***************************************************************************)
\* the empty dict {}
EmptyMap == [k \in {} |-> <<>>]

\* an exception propagating out of a call, in place of the call's value
Raised(e) == [raised |-> e]
IsRaised(x) == DOMAIN x = {"raised"}

NoErr == "none"

(***************************************************************************)
(* The two regular expressions.                                            *)
(***************************************************************************)
\* the longest prefix of s made of digits: what a greedy \d+ takes
RECURSIVE digit_run(_)
digit_run(s) ==
    IF s # <<>> /\ Head(s) \in Digit
    THEN <<Head(s)>> \o digit_run(Tail(s))
    ELSE <<>>

\* mutant: the match taken at the last digit run, not the first
last_digits(s) ==
    LET starts == {p \in 1..Len(s) :
                     /\ s[p] \in Digit
                     /\ (p = 1 \/ s[p - 1] \notin Digit)}
    IN  IF starts = {} THEN <<>>
        ELSE LET p == CHOOSE q \in starts : \A r \in starts : r <= q
             IN  <<digit_run(SubSeq(s, p, Len(s)))>>

\* re.search(r'\d+', s): <<>> for None, else <<m.group()>>, the leftmost match
first_digits(s) ==
    LET starts == {p \in 1..Len(s) : s[p] \in Digit}
    IN  IF starts = {} THEN <<>>
        ELSE LET p == CHOOSE q \in starts : \A r \in starts : q <= r
             IN  <<digit_run(SubSeq(s, p, Len(s)))>>

\* the literal part of r'abstract-paper-(?P<legacyid>\d+)'
AbstractPaper ==
    <<"a", "b", "s", "t", "r", "a", "c", "t", "-", "p", "a", "p", "e", "r", "-">>

\* re.search(r'abstract-paper-(?P<legacyid>\d+)', s): <<>> for None, else
\* <<m.group('legacyid')>>, of the leftmost match
search_abstract_paper(s) ==
    LET n == Len(AbstractPaper)
        starts == {p \in 1..Len(s) :
                     /\ p + n <= Len(s)
                     /\ SubSeq(s, p, p + n - 1) = AbstractPaper
                     /\ s[p + n] \in Digit}
    IN  IF starts = {} THEN <<>>
        ELSE LET p == CHOOSE q \in starts : \A r \in starts : q <= r
             IN  <<digit_run(SubSeq(s, p + n, Len(s)))>>

(***************************************************************************)
(* get_journal_data                                                        *)
(***************************************************************************)
\* mutant: a key once set is kept (first anchor of each kind wins)
journal_link_first(dd, link) ==
    IF "href" \notin DOMAIN link.attrs THEN Raised("KeyError")
    ELSE LET m == search_abstract_paper(link.attrs.href)
         IN  IF m # <<>>
             THEN dd @@ ("legacyid" :> m[1])
             ELSE dd @@ ("article_url" :> link.attrs.href)

\* the body of the loop over links: link['href'] raises KeyError when the
\* anchor has no href attribute
journal_link(dd, link) ==
    IF "href" \notin DOMAIN link.attrs THEN Raised("KeyError")
    ELSE LET m == search_abstract_paper(link.attrs.href)
         IN  IF m # <<>>
             THEN ("legacyid" :> m[1]) @@ dd
             ELSE ("article_url" :> link.attrs.href) @@ dd

RECURSIVE journal_links(_, _)
journal_links(dd, ls) ==
    IF ls = <<>> THEN dd
    ELSE LET n == journal_link(dd, Head(ls))
         IN  IF IsRaised(n) THEN n ELSE journal_links(n, Tail(ls))

get_journal_data(sp) ==
    IF Len(sp.journal_spans) = 0 THEN EmptyMap
    ELSE LET journal == sp.journal_spans[1]
         IN  journal_links("journal" :> clean_text(journal.text),
                           journal.anchors)

(***************************************************************************)
(* get_coders                                                              *)
(***************************************************************************)
\* coders[name][k] = v on a defaultdict(dict): reading a missing key
\* inserts {} under it first
setitem(cs, name, k, v) ==
    LET cur == IF name \in DOMAIN cs THEN cs[name] ELSE EmptyMap
    IN  (name :> ((k :> v) @@ cur)) @@ cs

\* mutant: the name is recorded, with {}, as soon as its block is met
coder_div_eager(cs, div) ==
    IF Len(div.names) = 0 THEN cs
    ELSE LET name == clean_text(div.names[1])
         IN  IF name \in DOMAIN cs THEN cs
             ELSE LET c0 == (name :> EmptyMap) @@ cs
                      c1 == IF Len(div.affiliations) > 0
                            THEN setitem(c0, name, "affiliation",
                                         clean_text(div.affiliations[1]))
                            ELSE c0
                  IN  IF Len(div.countrys) > 0
                      THEN setitem(c1, name, "country",
                                   clean_text(div.countrys[1]))
                      ELSE c1

\* the body of the loop over coderdivs
coder_div(cs, div) ==
    IF Len(div.names) = 0 THEN cs
    ELSE LET name == clean_text(div.names[1])
         IN  IF name \in DOMAIN cs THEN cs
             ELSE LET c1 == IF Len(div.affiliations) > 0
                            THEN setitem(cs, name, "affiliation",
                                         clean_text(div.affiliations[1]))
                            ELSE cs
                  IN  IF Len(div.countrys) > 0
                      THEN setitem(c1, name, "country",
                                   clean_text(div.countrys[1]))
                      ELSE c1

RECURSIVE coder_divs(_, _)
coder_divs(cs, ds) ==
    IF ds = <<>> THEN cs ELSE coder_divs(coder_div(cs, Head(ds)), Tail(ds))

get_coders(sp) == coder_divs(EmptyMap, sp.coderdivs)

(***************************************************************************)
(* The other fields, and the body of snarf_file.                           *)
(***************************************************************************)
get_names(sp) ==
    [k \in 1..Len(sp.author_spans) |-> clean_text(sp.author_spans[k])]

get_abstract(sp, legacy_id) ==
    LET abstract_results ==
            SelectSeq(sp.abstracts, LAMBDA a : a.paper = legacy_id)
    IN  IF Len(abstract_results) > 0
        THEN clean_text(abstract_results[1].text)
        ELSE <<>>

get_explanatory_text(sp) ==
    IF Len(sp.top_resume) > 0 THEN clean_text(sp.top_resume[1]) ELSE <<>>

\* the body of the with statement of snarf_file, after the parse: the
\* record, or the exception that leaves the block.  soup.title is None when
\* the document has no title element, and None has no attribute text
snarf_body(sp, legacy_id) ==
    IF Len(sp.titles) = 0 THEN Raised("AttributeError")
    ELSE LET j == get_journal_data(sp)
         IN  IF IsRaised(j) THEN j
             ELSE ("legacy_id" :> legacy_id)
                  @@ ("coders" :> get_coders(sp))
                  @@ j
                  @@ [title |-> sp.titles[1],
                      abstract |-> get_abstract(sp, legacy_id),
                      explanatory_text |-> get_explanatory_text(sp),
                      names |-> get_names(sp)]

(***************************************************************************)
(* The files the driver is run on.                                         *)
(***************************************************************************)
Anchor(href) == [attrs |-> ("href" :> href)]
BareAnchor == [attrs |-> EmptyMap]           \* <a> with no href attribute

HrefAbstract42 == <<"#">> \o AbstractPaper \o <<"4", "2">>
HrefAbstract7 == AbstractPaper \o <<"7", "x">>
HrefSecond9 == AbstractPaper \o <<"x">> \o AbstractPaper \o <<"9">>
HrefNoDigit == <<"#">> \o AbstractPaper
HrefPaper == <<"h", ":", "/", "p", "1">>
HrefOther == <<"h", ":", "/", "q">>

\* a page with every element the extractor looks for
FullDoc ==
    [titles |-> << <<"T", " ", "i">> >>,
     author_spans |-> << <<"A", "\n", " ", "O">>, <<" ", "B">> >>,
     journal_spans |->
         << [text |-> <<"J", " ", " ", "x">>,
             anchors |-> <<Anchor(HrefAbstract42), Anchor(HrefPaper)>>] >>,
     abstracts |->
         << [paper |-> <<"6">>, text |-> <<"n", "o">>],
            [paper |-> <<"6", "2">>, text |-> <<" ", "a", "\n", "\n", "b">>],
            [paper |-> <<"6", "2">>, text |-> <<"c">>] >>,
     top_resume |-> << <<"e", "\t">> >>,
     coderdivs |->
         << [names |-> << <<"N", " ">> >>,
             affiliations |-> << <<"U">> >>,
             countrys |-> << <<"F", "R">> >>],
            [names |-> << >>,
             affiliations |-> << <<"V">> >>,
             countrys |-> << >>],
            [names |-> << <<"N">> >>,
             affiliations |-> << <<"W">> >>,
             countrys |-> << >>] >>]

\* a page with a title and nothing else the extractor looks for
BareDoc ==
    [titles |-> << <<"t">> >>,
     author_spans |-> << >>,
     journal_spans |-> << >>,
     abstracts |-> << >>,
     top_resume |-> << >>,
     coderdivs |-> << >>]

\* a page with no title element
NoTitleDoc == [BareDoc EXCEPT !.titles = << >>]

\* a page whose journal span holds an anchor with no href attribute
NoHrefDoc ==
    [BareDoc EXCEPT !.journal_spans =
        << [text |-> <<"J">>, anchors |-> <<Anchor(HrefPaper), BareAnchor>>] >>]

PathFull == <<"s", "=", "6", "2">>
PathNoDigit == <<"a", "b">>
PathBare == <<"d", "1", "/", "x", "7">>
PathUnreadable == <<"n", "3">>
PathUnparsable == <<"g", "4", "0">>
PathNoTitle == <<"t", "5">>
PathNoHref == <<"h", "8">>

Paths == {PathFull, PathNoDigit, PathBare, PathUnreadable, PathUnparsable,
          PathNoTitle, PathNoHref}

\* what open() and BeautifulSoup() do with each path
FS(path) ==
    CASE path = PathFull -> [status |-> "ok", doc |-> FullDoc]
      [] path = PathNoDigit -> [status |-> "unreadable", doc |-> BareDoc]
      [] path = PathBare -> [status |-> "ok", doc |-> BareDoc]
      [] path = PathUnreadable -> [status |-> "unreadable", doc |-> BareDoc]
      [] path = PathUnparsable -> [status |-> "unparsable", doc |-> BareDoc]
      [] path = PathNoTitle -> [status |-> "ok", doc |-> NoTitleDoc]
      [] path = PathNoHref -> [status |-> "ok", doc |-> NoHrefDoc]

\* the name of the output file, as a file object of openFiles
ResultsName == <<"results.json">>

\* results.json before the run: missing, or left by an earlier run
\* content: the JSON arrays the file holds
NoResults == [by |-> "nobody", content |-> << >>]
OldResults == [by |-> "earlier run", content |-> << <<EmptyMap>> >>]
\* the file once open(..., 'w+') has truncated it
Truncated == [by |-> "this run", content |-> << >>]

\* fh.close(), by hand or by the with statement
Close(open, name) == SelectSeq(open, LAMBDA h : h # name)

(***************************************************************************)
(* Idle values of the parts a specification does not run.                  *)
(***************************************************************************)
DriverIdle ==
    /\ files = << >> /\ i = 0 /\ f = << >> /\ pc = "idle" /\ soup = << >>
    /\ d = EmptyMap /\ datalist = << >> /\ openFiles = << >>
    /\ opened = << >> /\ resultsJson = NoResults /\ results0 = NoResults
    /\ outOpens = 0
    /\ dumps = 0 /\ err = NoErr /\ written = << >>
CleanIdle == text = << >> /\ out1 = << >> /\ out2 = << >> /\ cpc = "idle"
CodersIdle == divs = << >> /\ coders = EmptyMap
JournalIdle == links = << >> /\ jd = EmptyMap /\ jpc = "idle"

(***************************************************************************)
(* The driver, with snarf_file in steps.                                   *)
(***************************************************************************)
Init ==
    /\ files \in SeqsUpTo(Paths, MaxFiles) \ {<< >>}    \* nargs='+'
    /\ i = 0
    /\ f = << >>
    /\ pc = "loop"
    /\ soup = << >>
    /\ d = EmptyMap
    /\ datalist = << >>
    /\ openFiles = << >>
    /\ opened = << >>
    /\ resultsJson \in {NoResults, OldResults}
    /\ results0 = resultsJson
    /\ written = << >>
    /\ outOpens = 0
    /\ dumps = 0
    /\ err = NoErr
    /\ CleanIdle /\ CodersIdle /\ JournalIdle

others == <<results0, cleanVars, codersVars, journalVars>>

\* for f in args.files: the next file becomes the global f, and snarf_file
\* is called on it
ForNext ==
    /\ pc = "loop" /\ i < Len(files)
    /\ f' = files[i + 1]
    /\ pc' = "call"
    /\ UNCHANGED <<files, i, soup, d, datalist, openFiles, opened,
                   resultsJson, outOpens, dumps, written, err, others>>

\* snarf_file, lines 85-87: no run of digits in f, return {}
SnarfNoId ==
    /\ pc = "call" /\ first_digits(f) = << >>
    /\ d' = EmptyMap
    /\ pc' = "append"
    /\ UNCHANGED <<files, i, f, soup, datalist, openFiles, opened,
                   resultsJson, outOpens, dumps, written, err, others>>

\* snarf_file, lines 85-91: a run of digits in f, open(fname)
SnarfOpen ==
    /\ pc = "call" /\ first_digits(f) # << >>
    /\ LET fname == files[i + 1]
       IN  /\ opened' = Append(opened, fname)
           /\ IF FS(fname).status = "unreadable"
              THEN /\ err' = "IOError" /\ pc' = "aborted"
                   /\ UNCHANGED openFiles
              ELSE /\ openFiles' = Append(openFiles, fname)
                   /\ pc' = "parse"
                   /\ UNCHANGED err
    /\ UNCHANGED <<files, i, f, soup, d, datalist, resultsJson, outOpens,
                   dumps, written, others>>

\* mutant: the file closed by hand at the end of the block, not by a with
\* statement, so that an exception leaves it open
SnarfParseNoWith ==
    /\ pc = "parse"
    /\ LET fname == files[i + 1]
       IN  IF FS(fname).status = "unparsable"
           THEN /\ err' = "ParseError" /\ pc' = "aborted"
                /\ UNCHANGED <<soup, openFiles>>
           ELSE /\ soup' = <<FS(fname).doc>>
                /\ pc' = "extract"
                /\ UNCHANGED <<openFiles, err>>
    /\ UNCHANGED <<files, i, f, d, datalist, opened, resultsJson, outOpens,
                   dumps, written, others>>

\* mutant: a file that cannot be parsed is skipped, {} standing for it
SnarfParseCatch ==
    /\ pc = "parse"
    /\ LET fname == files[i + 1]
       IN  IF FS(fname).status = "unparsable"
           THEN /\ d' = EmptyMap /\ pc' = "append"
                /\ openFiles' = Close(openFiles, fname)
                /\ UNCHANGED soup
           ELSE /\ soup' = <<FS(fname).doc>>
                /\ pc' = "extract"
                /\ UNCHANGED <<openFiles, d>>
    /\ UNCHANGED <<files, i, f, datalist, opened, resultsJson, outOpens,
                   dumps, written, err, others>>

\* snarf_file, line 92: BeautifulSoup(fh); an exception leaves the with
\* block, which closes fh
SnarfParse ==
    /\ pc = "parse"
    /\ LET fname == files[i + 1]
       IN  IF FS(fname).status = "unparsable"
           THEN /\ err' = "ParseError" /\ pc' = "aborted"
                /\ openFiles' = Close(openFiles, fname)
                /\ UNCHANGED soup
           ELSE /\ soup' = <<FS(fname).doc>>
                /\ pc' = "extract"
                /\ UNCHANGED <<openFiles, err>>
    /\ UNCHANGED <<files, i, f, d, datalist, opened, resultsJson, outOpens,
                   dumps, written, others>>

\* snarf_file, lines 93-102: the record is built and returned, or an
\* exception leaves the with block; either way fh is closed
SnarfExtract ==
    /\ pc = "extract"
    /\ LET fname == files[i + 1]
           r == snarf_body(soup[1], first_digits(f)[1])
       IN  /\ openFiles' = Close(openFiles, fname)
           /\ soup' = << >>
           /\ IF IsRaised(r)
              THEN /\ err' = r.raised /\ pc' = "aborted"
                   /\ UNCHANGED d
              ELSE /\ d' = r /\ pc' = "append"
                   /\ UNCHANGED err
    /\ UNCHANGED <<files, i, f, datalist, opened, resultsJson, outOpens,
                   dumps, written, others>>

\* mutant: datalist.insert(0, d)
DatalistPrepend ==
    /\ pc = "append"
    /\ datalist' = <<d>> \o datalist
    /\ i' = i + 1
    /\ pc' = "loop"
    /\ UNCHANGED <<files, f, soup, d, openFiles, opened, resultsJson,
                   outOpens, dumps, written, err, others>>

\* line 192: datalist.append(d), and back to the head of the loop
DatalistAppend ==
    /\ pc = "append"
    /\ datalist' = Append(datalist, d)
    /\ i' = i + 1
    /\ pc' = "loop"
    /\ UNCHANGED <<files, f, soup, d, openFiles, opened, resultsJson,
                   outOpens, dumps, written, err, others>>

\* mutant: the output file opened before the loop, not after it
OpenResultsEarly ==
    /\ pc = "loop" /\ (outOpens = 0 \/ i = Len(files))
    /\ IF outOpens = 0
       THEN /\ openFiles' = Append(openFiles, ResultsName)
            /\ resultsJson' = Truncated
            /\ outOpens' = outOpens + 1
       ELSE UNCHANGED <<openFiles, resultsJson, outOpens>>
    /\ pc' = IF i = Len(files) THEN "dump" ELSE "loop"
    /\ UNCHANGED <<files, i, f, soup, d, datalist, opened, dumps, written, err,
                   others>>

\* line 194: open('results.json', 'w+') once the loop is over; the mode
\* truncates the file
OpenResults ==
    /\ pc = "loop" /\ i = Len(files)
    /\ openFiles' = Append(openFiles, ResultsName)
    /\ resultsJson' = Truncated
    /\ outOpens' = outOpens + 1
    /\ pc' = "dump"
    /\ UNCHANGED <<files, i, f, soup, d, datalist, opened, dumps, written, err,
                   others>>

\* line 195: json.dump(datalist, fout, indent=2): one JSON array, with one
\* object for each dict of datalist, in the order of the list, written to
\* the file object.  The text stays in the buffer of fout (the records of
\* the files modelled here are far smaller than the buffer), so the file
\* on disk is still empty
Dump ==
    /\ pc = "dump"
    /\ written' = Append(written, datalist)
    /\ dumps' = dumps + 1
    /\ pc' = "close"
    /\ UNCHANGED <<files, i, f, soup, d, datalist, openFiles, opened,
                   resultsJson, outOpens, err, others>>

\* line 196: fout.close() flushes the buffer, so that the disk holds all
\* that was written, and closes the file
CloseResults ==
    /\ pc = "close"
    /\ resultsJson' = [resultsJson EXCEPT !.content = written]
    /\ openFiles' = Close(openFiles, ResultsName)
    /\ pc' = "done"
    /\ UNCHANGED <<files, i, f, soup, d, datalist, opened, outOpens, dumps,
                   written, err, others>>

Next ==
    \/ ForNext
    \/ SnarfNoId
    \/ SnarfOpen
    \/ SnarfParse
    \/ SnarfExtract
    \/ DatalistAppend
    \/ OpenResults
    \/ Dump
    \/ CloseResults

Spec == Init /\ [][Next]_vars

(***************************************************************************)
(* What a call of snarf_file by the driver comes to, as a function of the  *)
(* path: the record, or the exception raised.                              *)
(***************************************************************************)
snarf_file(fname) ==
    LET m == first_digits(fname)
    IN  IF m = << >> THEN EmptyMap
        ELSE IF FS(fname).status = "unreadable" THEN Raised("IOError")
        ELSE IF FS(fname).status = "unparsable" THEN Raised("ParseError")
        ELSE snarf_body(FS(fname).doc, m[1])

(***************************************************************************)
(* Properties of the driver.                                               *)
(***************************************************************************)
HasDigit(s) == \E p \in 1..Len(s) : s[p] \in Digit

\* r is the first run of digits of s: digits only, starting at the first
\* digit of s, and followed by no digit
IsFirstDigitRun(r, s) ==
    /\ Len(r) >= 1
    /\ \A k \in 1..Len(r) : r[k] \in Digit
    /\ \E p \in 1..Len(s) :
         /\ \A q \in 1..(p - 1) : s[q] \notin Digit
         /\ p + Len(r) - 1 <= Len(s)
         /\ SubSeq(s, p, p + Len(r) - 1) = r
         /\ (p + Len(r) <= Len(s) => s[p + Len(r)] \notin Digit)

\* C1: a run that ends normally has written one array to results.json,
\* as long as the list of files, whose k-th entry is what snarf_file gives
\* for the k-th file, {} where the path has no digit.
C1_OutputInInputOrder ==
    pc = "done" =>
        /\ Len(resultsJson.content) = 1
        /\ LET array == resultsJson.content[1]
           IN  /\ Len(array) = Len(files)
               /\ \A k \in 1..Len(files) :
                    /\ array[k] = snarf_file(files[k])
                    /\ ~HasDigit(files[k]) => array[k] = EmptyMap

C1_Witness ==
    /\ pc = "done"
    /\ Len(files) = MaxFiles
    /\ files[1] = PathNoDigit
    /\ files[Len(files)] = PathFull
    /\ resultsJson.content[1][1] = EmptyMap
    /\ resultsJson.content[1][Len(files)].legacy_id = <<"6", "2">>

\* C2: when snarf_file has returned for the path f, a path with a run of
\* digits gave a record whose legacy_id is the first run of digits of the
\* path, and a path with no digit gave {} and was never opened; and a run
\* never aborts at a path with no digit.
C2_LegacyIdFromPath ==
    /\ pc = "append" =>
         IF HasDigit(f)
         THEN /\ "legacy_id" \in DOMAIN d
              /\ IsFirstDigitRun(d["legacy_id"], f)
         ELSE /\ d = EmptyMap
              /\ \A k \in 1..Len(opened) : opened[k] # f
    /\ pc = "aborted" => HasDigit(files[i + 1])

C2_Witness ==
    /\ pc = "append"
    /\ f = PathBare
    /\ d["legacy_id"] = <<"1">>
    /\ i >= 1
    /\ files[i] = PathNoDigit
    /\ datalist[i] = EmptyMap
    /\ opened = <<PathBare>>

\* C4: a file that can be read and parsed and whose path has a run of
\* digits never makes snarf_file raise, whatever elements or attributes it
\* lacks.
C4_MissingNeverRaises ==
    \A k \in 1..Len(files) :
        (HasDigit(files[k]) /\ FS(files[k]).status = "ok")
            => ~(pc = "aborted" /\ i + 1 = k)

\* C5: when snarf_file raises on the k-th file, the run stops there: the
\* loop never gets past that file, results.json is never opened nor
\* written and stays what it was, and nothing follows the abort.
C5_FatalAborts ==
    /\ \A k \in 1..Len(files) :
         IsRaised(snarf_file(files[k])) =>
            /\ i < k
            /\ Len(datalist) < k
            /\ outOpens = 0 /\ dumps = 0
            /\ resultsJson = results0
            /\ pc \notin {"dump", "close", "done"}
    /\ pc = "aborted" => ~ENABLED Next

C5_Witness ==
    /\ pc = "aborted"
    /\ err = "ParseError"
    /\ i >= 1
    /\ datalist # << >>
    /\ datalist[1] # EmptyMap
    /\ i + 1 < Len(files)
    /\ results0 = OldResults
    /\ resultsJson = OldResults

\* C7: at most one file is open at any time; an input file is open only
\* inside the call of snarf_file on it; results.json is open only after
\* the loop; and no file is open when the run has ended or aborted.
C7_OneFileOpen ==
    /\ Len(openFiles) <= 1
    /\ pc \in {"loop", "call", "append", "done", "aborted"}
           => openFiles = << >>
    /\ pc \in {"parse", "extract"} => openFiles = <<files[i + 1]>>
    /\ pc \in {"dump", "close"} => openFiles = <<ResultsName>>

C7_Witness ==
    /\ pc = "aborted"
    /\ err = "ParseError"
    /\ Len(opened) >= 2
    /\ opened[Len(opened)] = PathUnparsable
    /\ openFiles = << >>

\* C8: results.json is opened, truncated or written only when snarf_file
\* has returned for every file, and a run that ends normally has opened
\* it once and written to it once.
C8_WrittenOnceAtEnd ==
    /\ (outOpens > 0 \/ dumps > 0 \/ resultsJson # results0)
           => /\ i = Len(files)
              /\ Len(datalist) = Len(files)
              /\ pc \in {"dump", "close", "done"}
    /\ dumps <= 1 /\ outOpens <= 1
    /\ pc = "done" =>
           /\ dumps = 1 /\ outOpens = 1
           /\ resultsJson.content = <<datalist>>

C8_Witness ==
    /\ pc = "done"
    /\ Len(files) = MaxFiles
    /\ dumps = 1
    /\ results0 = OldResults
    /\ Len(resultsJson.content[1]) = MaxFiles

(***************************************************************************)
(* clean_text on its own: applied to a text, then to its own result.       *)
(***************************************************************************)
InitClean ==
    /\ text \in SeqsUpTo(Alphabet, MaxLen)
    /\ out1 = << >> /\ out2 = << >>
    /\ cpc = "start"
    /\ DriverIdle /\ CodersIdle /\ JournalIdle

CleanOnce ==
    /\ cpc = "start"
    /\ out1' = clean_text(text)
    /\ cpc' = "once"
    /\ UNCHANGED <<text, out2, driverVars, codersVars, journalVars>>

CleanTwice ==
    /\ cpc = "once"
    /\ out2' = clean_text(out1)
    /\ cpc' = "twice"
    /\ UNCHANGED <<text, out1, driverVars, codersVars, journalVars>>

NextClean == CleanOnce \/ CleanTwice

SpecClean == InitClean /\ [][NextClean]_vars

\* C9 as stated: clean_text applied to its own result changes nothing, and
\* its result neither starts nor ends with a whitespace character nor
\* holds two whitespace characters in a row.
C9_NoWhitespaceRun ==
    /\ cpc = "twice" => out2 = out1
    /\ cpc \in {"once", "twice"} =>
         /\ out1 # << >> =>
              /\ out1[1] \notin StripWhitespace
              /\ out1[Len(out1)] \notin StripWhitespace
         /\ \A k \in 1..(Len(out1) - 1) :
              ~(out1[k] \in StripWhitespace /\ out1[k + 1] \in StripWhitespace)

\* What does hold of clean_text: applied to its own result it changes
\* nothing; its result neither starts nor ends with a character strip()
\* removes; the only character matched by \s that it holds is the space,
\* never twice in a row.
C9_CleanTextIdempotent ==
    /\ cpc = "twice" => out2 = out1
    /\ cpc \in {"once", "twice"} =>
         /\ out1 # << >> =>
              /\ out1[1] \notin StripWhitespace
              /\ out1[Len(out1)] \notin StripWhitespace
         /\ \A k \in 1..Len(out1) :
              out1[k] \in ReWhitespace => out1[k] = " "
         /\ \A k \in 1..(Len(out1) - 1) :
              ~(out1[k] \in ReWhitespace /\ out1[k + 1] \in ReWhitespace)

C9_Witness ==
    /\ cpc = "twice"
    /\ text = <<"U+00A0", "a", "U+000B", "\n">>
    /\ out1 = <<"a">>
    /\ out2 = <<"a">>

(***************************************************************************)
(* get_coders on its own.                                                  *)
(***************************************************************************)
\* the p.name, p.affiliation and p.country elements a coder block may hold
NameChoices == { << >>, << <<"N">> >>, << <<" ", "N", "\n">> >>, << <<"M">> >> }
AffiliationChoices == { << >>, << <<"U">> >>, << <<"V", " ">>, <<"U">> >> }
CountryChoices == { << >>, << <<"F">> >> }

CoderDivs ==
    [names : NameChoices, affiliations : AffiliationChoices,
     countrys : CountryChoices]

\* the value of coders before get_coders is called
NotCalled == [pending |-> "get_coders"]

InitCoders ==
    /\ divs \in SeqsUpTo(CoderDivs, MaxDivs)
    /\ coders = NotCalled
    /\ DriverIdle /\ CleanIdle /\ JournalIdle

GetCoders ==
    /\ DOMAIN coders = {"pending"}
    /\ coders' = get_coders([BareDoc EXCEPT !.coderdivs = divs])
    /\ UNCHANGED <<divs, driverVars, cleanVars, journalVars>>

NextCoders == GetCoders

SpecCoders == InitCoders /\ [][NextCoders]_vars

CodersReturned == DOMAIN coders # {"pending"}

\* the blocks that carry a name, and the name each carries
Named == {k \in 1..Len(divs) : Len(divs[k].names) > 0}
NameOf(k) == clean_text(divs[k].names[1])

\* what a block supplies for its coder
Supplied(k) ==
    (IF Len(divs[k].affiliations) > 0
     THEN "affiliation" :> clean_text(divs[k].affiliations[1])
     ELSE EmptyMap)
    @@
    (IF Len(divs[k].countrys) > 0
     THEN "country" :> clean_text(divs[k].countrys[1])
     ELSE EmptyMap)

\* what the result stores under a name: {} when the name is no key
Stored(name) == IF name \in DOMAIN coders THEN coders[name] ELSE EmptyMap

\* C3: the result stores under every coder name what the first block with
\* that name supplies, and nothing when that block supplies nothing.
C3_FirstBlockWins ==
    CodersReturned =>
        \A k \in Named :
            (\A j \in Named : NameOf(j) = NameOf(k) => k <= j)
                => Stored(NameOf(k)) = Supplied(k)

\* C10: every key of the result maps to a non-empty mapping of affiliation
\* and country, and a name is a key exactly when some block with that name
\* carries an affiliation or a country.
C10_KeysHaveData ==
    CodersReturned =>
        /\ \A name \in DOMAIN coders :
             /\ coders[name] # EmptyMap
             /\ DOMAIN coders[name] \subseteq {"affiliation", "country"}
             /\ \E k \in Named : NameOf(k) = name
        /\ \A k \in Named :
             NameOf(k) \in DOMAIN coders
                 <=> \E j \in Named :
                        NameOf(j) = NameOf(k) /\ Supplied(j) # EmptyMap

C10_Witness ==
    /\ CodersReturned
    /\ Len(divs) = MaxDivs
    /\ divs[1] = [names |-> << <<"M">> >>, affiliations |-> << >>,
                  countrys |-> << >>]
    /\ divs[2] = [names |-> << <<"N">> >>, affiliations |-> << >>,
                  countrys |-> << >>]
    /\ divs[MaxDivs] = [names |-> << <<" ", "N", "\n">> >>,
                        affiliations |-> << <<"V", " ">>, <<"U">> >>,
                        countrys |-> << >>]
    /\ coders = (<<"N">> :> [affiliation |-> <<"V">>])

(***************************************************************************)
(* get_journal_data on its own.                                            *)
(***************************************************************************)
Anchors ==
    {Anchor(h) : h \in {HrefAbstract42, HrefAbstract7, HrefSecond9,
                        HrefNoDigit, HrefPaper, HrefOther}}
    \cup {BareAnchor}

InitJournal ==
    /\ links \in SeqsUpTo(Anchors, MaxLinks)
    /\ jd = EmptyMap
    /\ jpc = "start"
    /\ DriverIdle /\ CleanIdle /\ CodersIdle

\* the page has a div#journal > span, whose anchors are links
GetJournalData ==
    /\ jpc = "start"
    /\ \E t \in {<<"J">>, <<" ", "J", " ", " ", "x">>} :
         jd' = get_journal_data(
                  [BareDoc EXCEPT !.journal_spans =
                      << [text |-> t, anchors |-> links],
                         [text |-> <<"K">>,
                          anchors |-> <<Anchor(HrefAbstract7)>>] >>])
    /\ jpc' = "span"
    /\ UNCHANGED <<links, driverVars, cleanVars, codersVars>>

\* the page has no div#journal > span
GetJournalDataNoSpan ==
    /\ jpc = "start" /\ links = << >>
    /\ jd' = get_journal_data(BareDoc)
    /\ jpc' = "nospan"
    /\ UNCHANGED <<links, driverVars, cleanVars, codersVars>>

NextJournal == GetJournalData \/ GetJournalDataNoSpan

SpecJournal == InitJournal /\ [][NextJournal]_vars

HasHref(k) == "href" \in DOMAIN links[k].attrs
HrefOf(k) == links[k].attrs["href"]

\* href holds abstract-paper- followed by a digit
MatchesPattern(h) ==
    \E p \in 1..Len(h) :
        /\ p + Len(AbstractPaper) <= Len(h)
        /\ SubSeq(h, p, p + Len(AbstractPaper) - 1) = AbstractPaper
        /\ h[p + Len(AbstractPaper)] \in Digit

Matching == {k \in 1..Len(links) : MatchesPattern(HrefOf(k))}
NotMatching == {k \in 1..Len(links) : ~MatchesPattern(HrefOf(k))}
Last(S) == CHOOSE k \in S : \A j \in S : j <= k

\* C6: when every anchor of the first journal span has an href,
\* get_journal_data returns; legacyid is the digits captured in the last
\* anchor whose href matches, and is no key when none matches; article_url
\* is the href of the last anchor whose href does not match, and is no key
\* when all match.
C6_LastAnchorOfEachKind ==
    (jpc = "span" /\ \A k \in 1..Len(links) : HasHref(k)) =>
        /\ ~IsRaised(jd)
        /\ "legacyid" \in DOMAIN jd <=> Matching # {}
        /\ Matching # {} =>
             jd["legacyid"] = search_abstract_paper(HrefOf(Last(Matching)))[1]
        /\ "article_url" \in DOMAIN jd <=> NotMatching # {}
        /\ NotMatching # {} => jd["article_url"] = HrefOf(Last(NotMatching))

C6_Witness ==
    /\ jpc = "span"
    /\ links = <<Anchor(HrefAbstract42), Anchor(HrefPaper),
                 Anchor(HrefSecond9)>>
    /\ jd["legacyid"] = <<"9">>
    /\ jd["article_url"] = HrefPaper
    /\ jd["journal"] \in {<<"J">>, <<"J", " ", "x">>}

====
